---------------------------- MODULE Spec2Model ----------------------------
(***************************************************************************)
(* Model of app.py: the Streamlit script of the Financial AI Advisor.      *)
(*                                                                         *)
(* Spec   - one execution of main() after another (Streamlit re-runs the   *)
(*          script on every interaction): load_models, the sidebar form,   *)
(*          predict_expenses, get_budget_recommendation, the display.      *)
(* SpecFn - get_budget_recommendation and the expense-ratio analysis       *)
(*          applied as pure functions to arbitrary arguments, including    *)
(*          the ones the form of main() cannot produce.                    *)
(*                                                                         *)
(* Numbers.  Incomes and predictions are whole rupees.  savings_target and *)
(* investment_recommended are kept in thousandths of a rupee, so that      *)
(* income * 0.15 * 0.8 is an exact integer.  expense_ratio is the pair     *)
(* [num, den] of the division; den = 0 stands for the IEEE result of a     *)
(* numpy float64 divided by zero (inf, -inf or nan by the sign of num).    *)
(* None is <<>> and a present value v is <<v>>.                            *)
(***************************************************************************)
EXTENDS Integers, Sequences, FiniteSets, TLC

VARIABLES pc,              \* position in main(), or in the direct call
          artifacts,       \* the three files under models/ at load time
          loaded,          \* (expense_model, occupation_encoder, city_encoder)
          user_data,       \* the dict built at lines 217-224, <<>> before
          features,        \* the DataFrame handed to model.predict
          predict_outcome, \* what model.predict did in this run
          predicted_expenses,
          budget_plan,
          status,          \* the expense-ratio status of lines 304-312
          calls            \* functions entered in this run

vars == <<pc, artifacts, loaded, user_data, features, predict_outcome,
          predicted_expenses, budget_plan, status, calls>>

None == <<>>

Some(v) == <<v>>

(***************************************************************************)
(* Bounds of the exploration.                                              *)
(***************************************************************************)
MaxTypedSteps == 4

MaxPredK == 20

(***************************************************************************)
(* Widget parameters of the sidebar form.                                  *)
(***************************************************************************)
AgeMin == 18

AgeMax == 65

IncomeMin == 10000

IncomeMax == 500000

IncomeStep == 5000

DependentsMin == 0

DependentsMax == 5

OccupationOptions == {"Employee", "Business", "Professional", "Student", "Retired"}

CityTierOptions == {"Tier 1", "Tier 2", "Tier 3"}

RiskOptions == {"Low", "Medium", "High"}

\* What a user may try to enter in the income box: the steps around the
\* minimum, values off the step grid, and values around the maximum.
TypedIncomes ==
    {IncomeStep * k : k \in -1..MaxTypedSteps}
        \cup {IncomeMin + 17, IncomeMin + 50, 10 * IncomeStep, 15 * IncomeStep,
              IncomeMax, IncomeMax + IncomeStep}

TypedAges == {AgeMin, AgeMax}

TypedDependents == {DependentsMin, DependentsMax}

\* st.number_input(min_value=10000, max_value=500000): the widget only
\* yields a value inside its range.
number_input_any(v) == v <= IncomeMax

number_input(v) == IncomeMin <= v /\ v <= IncomeMax

(***************************************************************************)
(* The external collaborators.                                             *)
(***************************************************************************)
\* Values model.predict may return (a regressor is opaque to app.py).
PredictedValues ==
    {(IncomeStep \div 10) * k : k \in -1..MaxPredK}
        \cup {9 * IncomeStep, IncomeMax + IncomeStep}

PredictOutcomes ==
    {[raised |-> FALSE, value |-> v] : v \in PredictedValues}
        \cup {[raised |-> TRUE, value |-> 0]}

\* A fitted LabelEncoder is its classes_; the pickles may have been fitted
\* on data that lacks some of the form's options.
OccupationCodecs == {OccupationOptions, {"Employee", "Student"}}

CityCodecs == {CityTierOptions, {"Tier 1", "Tier 2"}, {"Tier 2", "Tier 3"}}

Artifacts ==
    [model : {None, Some("RandomForest")},
     occupation : {None} \cup {Some(c) : c \in OccupationCodecs},
     city : {None} \cup {Some(c) : c \in CityCodecs}]

\* np.unique order of the class labels
SortedLabels ==
    <<"Business", "Employee", "Professional", "Retired", "Student",
      "Tier 1", "Tier 2", "Tier 3">>

Rank(x) == CHOOSE i \in 1..Len(SortedLabels) : SortedLabels[i] = x

\* encoder.transform([x])[0]: the index of x in classes_; raises on an
\* unseen label, and on a None encoder.
transform(encoder, x) ==
    IF encoder = None THEN [raised |-> TRUE, code |-> 0]
    ELSE IF x \notin encoder[1] THEN [raised |-> TRUE, code |-> 0]
    ELSE [raised |-> FALSE,
          code |-> Cardinality({c \in encoder[1] : Rank(c) < Rank(x)})]

(***************************************************************************)
(* load_models, lines 48-57                                                *)
(***************************************************************************)
NoModels ==
    [expense_model |-> None, occupation_encoder |-> None, city_encoder |-> None]

load_models_partial(disk) ==
    [expense_model |-> disk.model, occupation_encoder |-> disk.occupation,
     city_encoder |-> disk.city]

load_models(disk) ==
    IF disk.model = None \/ disk.occupation = None \/ disk.city = None
    THEN NoModels
    ELSE [expense_model |-> disk.model, occupation_encoder |-> disk.occupation,
          city_encoder |-> disk.city]

(***************************************************************************)
(* predict_expenses, lines 59-77                                           *)
(***************************************************************************)
DefaultOccupationCode == 0

DefaultCityCode == 1

\* lines 61-66: one try block around both transforms, one bare except
encode_categories(data, occupation_encoder, city_encoder) ==
    LET o == transform(occupation_encoder, data.occupation)
        c == transform(city_encoder, data.city_tier)
    IN  IF o.raised \/ c.raised
        THEN [occupation_encoded |-> DefaultOccupationCode,
              city_encoded |-> DefaultCityCode]
        ELSE [occupation_encoded |-> o.code, city_encoded |-> c.code]

user_features(data, enc) ==
    [Age |-> data.age, Income |-> data.income,
     Occupation_Encoded |-> enc.occupation_encoded,
     City_Tier_Encoded |-> enc.city_encoded,
     Dependents |-> data.dependents]

\* without the except clause of lines 64-66
predict_expenses_nocatch(data, outcome, occupation_encoder, city_encoder) ==
    LET o == transform(occupation_encoder, data.occupation)
        c == transform(city_encoder, data.city_tier)
    IN  IF o.raised \/ c.raised
        THEN [predict_called |-> FALSE, features |-> None, raised |-> TRUE,
              value |-> None]
        ELSE [predict_called |-> TRUE,
              features |-> Some(user_features(data,
                  [occupation_encoded |-> o.code, city_encoded |-> c.code])),
              raised |-> outcome.raised,
              value |-> IF outcome.raised THEN None ELSE Some(outcome.value)]

\* with a failure of model.predict swallowed into a default number
predict_expenses_default(data, outcome, occupation_encoder, city_encoder) ==
    [predict_called |-> TRUE,
     features |-> Some(user_features(data,
         encode_categories(data, occupation_encoder, city_encoder))),
     raised |-> FALSE,
     value |-> IF outcome.raised THEN Some(0) ELSE Some(outcome.value)]

\* outcome is what model.predict does with the features: line 76 lets an
\* exception of predict leave the function.
predict_expenses(data, outcome, occupation_encoder, city_encoder) ==
    [predict_called |-> TRUE,
     features |-> Some(user_features(data,
         encode_categories(data, occupation_encoder, city_encoder))),
     raised |-> outcome.raised,
     value |-> IF outcome.raised THEN None ELSE Some(outcome.value)]

(***************************************************************************)
(* get_budget_recommendation, lines 79-124                                 *)
(***************************************************************************)
\* line 84: predicted_expenses / income, predicted_expenses a numpy float64
divide(num, den) ==
    IF den < 0 THEN [num |-> 0 - num, den |-> 0 - den]
    ELSE [num |-> num, den |-> den]

\* ratio > a/b and ratio < a/b for b > 0; nan compares false both ways
ratio_gt(ratio, a, b) ==
    IF ratio.den = 0 THEN ratio.num > 0 ELSE ratio.num * b > a * ratio.den

ratio_lt(ratio, a, b) ==
    IF ratio.den = 0 THEN ratio.num < 0 ELSE ratio.num * b < a * ratio.den

\* line 82: user_data.get('risk', 'Medium')
get_risk(data) == IF "risk" \in DOMAIN data THEN data.risk ELSE "Medium"

ConservativeStrategy == "Conservative - Focus on safety and long term stocks"

BalancedStrategy == "Balanced - Growth with mutual funds and sip"

AggressiveStrategy == "Aggressive - Maximum growth(you can try options)"

StandardStrategy == "Standard - Balanced approach (go with secure investments)"

HighExpenseAlert == " | High expense alert"

\* the Low branch computed with the Medium investment share
risk_strategy_low_slip(risk, income) ==
    IF risk = "Low"
    THEN [savings_target |-> income * 150, investment |-> income * 150,
          strategy |-> <<ConservativeStrategy>>]
    ELSE IF risk = "Medium"
    THEN [savings_target |-> income * 200, investment |-> income * 150,
          strategy |-> <<BalancedStrategy>>]
    ELSE IF risk = "High"
    THEN [savings_target |-> income * 250, investment |-> income * 200,
          strategy |-> <<AggressiveStrategy>>]
    ELSE [savings_target |-> income * 200, investment |-> income * 150,
          strategy |-> <<StandardStrategy>>]

\* the else branch computed with the Low shares
risk_strategy_else_slip(risk, income) ==
    IF risk = "Low"
    THEN [savings_target |-> income * 150, investment |-> income * 100,
          strategy |-> <<ConservativeStrategy>>]
    ELSE IF risk = "Medium"
    THEN [savings_target |-> income * 200, investment |-> income * 150,
          strategy |-> <<BalancedStrategy>>]
    ELSE IF risk = "High"
    THEN [savings_target |-> income * 250, investment |-> income * 200,
          strategy |-> <<AggressiveStrategy>>]
    ELSE [savings_target |-> income * 150, investment |-> income * 100,
          strategy |-> <<StandardStrategy>>]

\* lines 86-102, amounts in thousandths of a rupee (income * 0.15 is
\* income * 150 thousandths); the strategy is a sequence of text segments
risk_strategy(risk, income) ==
    IF risk = "Low"
    THEN [savings_target |-> income * 150, investment |-> income * 100,
          strategy |-> <<ConservativeStrategy>>]
    ELSE IF risk = "Medium"
    THEN [savings_target |-> income * 200, investment |-> income * 150,
          strategy |-> <<BalancedStrategy>>]
    ELSE IF risk = "High"
    THEN [savings_target |-> income * 250, investment |-> income * 200,
          strategy |-> <<AggressiveStrategy>>]
    ELSE [savings_target |-> income * 200, investment |-> income * 150,
          strategy |-> <<StandardStrategy>>]

\* expense_ratio >= 0.8 in place of > 0.8
high_expense_inclusive(ratio) == ~ ratio_lt(ratio, 8, 10) /\ ~ (ratio.den = 0 /\ ratio.num = 0)

\* line 105: expense_ratio > 0.8
high_expense(ratio) == ratio_gt(ratio, 8, 10)

\* lines 106-107: x *= 0.8 (x is a multiple of 10 thousandths)
scale_down(x) == (x * 8) \div 10

\* lines 104-108
expense_ratio_adjustment(base, ratio) ==
    IF high_expense(ratio)
    THEN [savings_target |-> scale_down(base.savings_target),
          investment |-> scale_down(base.investment),
          strategy |-> Append(base.strategy, HighExpenseAlert)]
    ELSE base

\* f"{x:,.0f}" truncating instead of rounding
format_0f_floor(hundredths) == hundredths \div 100

\* f"{x:,.0f}" of x = hundredths / 100: the nearest whole number, a tie
\* going to the even neighbour (the digits printed; the separators do not
\* change the number)
format_0f(hundredths) ==
    LET lower == hundredths \div 100
        rest == hundredths % 100
    IN  IF rest < 50 THEN lower
        ELSE IF rest > 50 THEN lower + 1
        ELSE IF lower % 2 = 0 THEN lower ELSE lower + 1

\* lines 110-115: an insertion-ordered dict of texts "Save (amount) (tip)"
savings_opportunities(income) ==
    <<[category |-> "Groceries", amount |-> format_0f(income * 3),
       tip |-> "with smart shopping"],
      [category |-> "Entertainment", amount |-> format_0f(income * 2),
       tip |-> "with budget planning"],
      [category |-> "Eating Out", amount |-> format_0f(income * 4),
       tip |-> "by cooking at home"],
      [category |-> "Transport", amount |-> format_0f(income * 2),
       tip |-> "with carpooling"]>>

get_budget_recommendation(data, predicted) ==
    LET income == data.income
        risk == get_risk(data)
        expense_ratio == divide(predicted, income)
        adjusted == expense_ratio_adjustment(risk_strategy(risk, income),
                                             expense_ratio)
    IN  [predicted_expenses |-> predicted,
         savings_target |-> adjusted.savings_target,
         investment_recommended |-> adjusted.investment,
         expense_ratio |-> expense_ratio,
         strategy |-> adjusted.strategy,
         savings_opportunities |-> savings_opportunities(income)]

(***************************************************************************)
(* Expense Ratio Analysis of main, lines 304-312                           *)
(***************************************************************************)
\* expense_ratio <= 0.5 in place of < 0.5
expense_ratio_status_inclusive(ratio) ==
    IF ratio_lt(ratio, 5, 10) \/ (ratio.den # 0 /\ ratio.num * 10 = 5 * ratio.den)
    THEN "Excellent"
    ELSE IF ratio_lt(ratio, 7, 10) THEN "Moderate"
    ELSE "High"

expense_ratio_status(ratio) ==
    IF ratio_lt(ratio, 5, 10) THEN "Excellent"
    ELSE IF ratio_lt(ratio, 7, 10) THEN "Moderate"
    ELSE "High"

(***************************************************************************)
(* main, lines 184-322: one action per step of the script                  *)
(***************************************************************************)
Init ==
    /\ pc = "start"
    /\ artifacts \in Artifacts
    /\ loaded = NoModels
    /\ user_data = None
    /\ features = None
    /\ predict_outcome = None
    /\ predicted_expenses = None
    /\ budget_plan = None
    /\ status = None
    /\ calls = {}

\* lines 190-194
MainLoadModels ==
    /\ pc = "start"
    /\ loaded' = load_models(artifacts)
    /\ calls' = calls \cup {"load_models"}
    /\ pc' = IF loaded'.expense_model = None THEN "unavailable" ELSE "form"
    /\ UNCHANGED <<artifacts, user_data, features, predict_outcome,
                   predicted_expenses, budget_plan, status>>

\* lines 199-209 and 324-357: the form is shown and not submitted
FormNotSubmitted ==
    /\ pc = "form"
    /\ pc' = "welcome"
    /\ UNCHANGED <<artifacts, loaded, user_data, features, predict_outcome,
                   predicted_expenses, budget_plan, status, calls>>

\* lines 199-224: the form is submitted with values its widgets allow
FormSubmitted ==
    /\ pc = "form"
    /\ \E age \in TypedAges, income \in TypedIncomes,
          occupation \in OccupationOptions, city_tier \in CityTierOptions,
          dependents \in TypedDependents, risk_appetite \in RiskOptions :
            /\ number_input(income)
            /\ user_data' = Some([age |-> age, income |-> income,
                                  occupation |-> occupation,
                                  city_tier |-> city_tier,
                                  dependents |-> dependents,
                                  risk |-> risk_appetite])
    /\ pc' = "predict"
    /\ UNCHANGED <<artifacts, loaded, features, predict_outcome,
                   predicted_expenses, budget_plan, status, calls>>

\* line 227; an exception leaves main and ends the run
MainPredictExpenses ==
    /\ pc = "predict"
    /\ \E outcome \in PredictOutcomes :
        LET r == predict_expenses(user_data[1], outcome,
                                  loaded.occupation_encoder,
                                  loaded.city_encoder)
        IN  /\ features' = r.features
            /\ predict_outcome' =
                   IF r.predict_called THEN Some(outcome) ELSE None
            /\ calls' = calls \cup {"predict_expenses"}
                   \cup (IF r.predict_called THEN {"model.predict"} ELSE {})
            /\ predicted_expenses' = r.value
            /\ pc' = IF r.raised THEN "exception" ELSE "recommend"
    /\ UNCHANGED <<artifacts, loaded, user_data, budget_plan, status>>

\* line 230
MainGetBudgetRecommendation ==
    /\ pc = "recommend"
    /\ budget_plan' = Some(get_budget_recommendation(user_data[1],
                                                     predicted_expenses[1]))
    /\ calls' = calls \cup {"get_budget_recommendation"}
    /\ pc' = "display"
    /\ UNCHANGED <<artifacts, loaded, user_data, features, predict_outcome,
                   predicted_expenses, status>>

\* lines 232-322
MainDisplay ==
    /\ pc = "display"
    /\ status' = Some(expense_ratio_status(budget_plan[1].expense_ratio))
    /\ pc' = "done"
    /\ UNCHANGED <<artifacts, loaded, user_data, features, predict_outcome,
                   predicted_expenses, budget_plan, calls>>

\* Streamlit runs the script again from the top; the files under models/
\* may have changed in between.
Rerun ==
    /\ pc \in {"unavailable", "welcome", "exception", "done"}
    /\ pc' = "start"
    /\ artifacts' \in Artifacts
    /\ loaded' = NoModels
    /\ user_data' = None
    /\ features' = None
    /\ predict_outcome' = None
    /\ predicted_expenses' = None
    /\ budget_plan' = None
    /\ status' = None
    /\ calls' = {}

Next ==
    \/ MainLoadModels
    \/ FormNotSubmitted
    \/ FormSubmitted
    \/ MainPredictExpenses
    \/ MainGetBudgetRecommendation
    \/ MainDisplay
    \/ Rerun

Spec == Init /\ [][Next]_vars

(***************************************************************************)
(* get_budget_recommendation and the status called on arbitrary arguments  *)
(***************************************************************************)
RiskArguments == RiskOptions \cup {"Unknown-value", "medium"}

ProfileArguments ==
    {[age |-> 28, income |-> income, occupation |-> "Employee",
      city_tier |-> "Tier 1", dependents |-> 0, risk |-> risk] :
        income \in TypedIncomes, risk \in RiskArguments}
    \cup
    {[age |-> 28, income |-> income, occupation |-> "Employee",
      city_tier |-> "Tier 1", dependents |-> 0] : income \in TypedIncomes}

InitFn ==
    /\ pc = "recommend"
    /\ artifacts = [model |-> None, occupation |-> None, city |-> None]
    /\ loaded = NoModels
    /\ user_data \in {Some(p) : p \in ProfileArguments}
    /\ features = None
    /\ predict_outcome = None
    /\ predicted_expenses \in {Some(v) : v \in PredictedValues}
    /\ budget_plan = None
    /\ status = None
    /\ calls = {}

NextFn ==
    \/ MainGetBudgetRecommendation
    \/ MainDisplay

SpecFn == InitFn /\ [][NextFn]_vars

(***************************************************************************)
(* Properties                                                              *)
(***************************************************************************)
Data == user_data[1]

Pred == predicted_expenses[1]

Plan == budget_plan[1]

RiskOf == IF "risk" \in DOMAIN Data THEN Data.risk ELSE "Medium"

\* the allocation table, in percent of income
TableSavings(risk) ==
    CASE risk = "Low" -> 15 [] risk = "High" -> 25 [] OTHER -> 20

TableInvestment(risk) ==
    CASE risk = "Low" -> 10 [] risk = "High" -> 20 [] OTHER -> 15

HasAlert(strategy) == \E i \in 1..Len(strategy) : strategy[i] = " | High expense alert"

EndsWithAlert(strategy) ==
    Len(strategy) > 1 /\ strategy[Len(strategy)] = " | High expense alert"

\* C1: for income > 0, when predicted_expenses / income > 0.8 the savings
\* target and the investment are exactly 0.8 times the base allocation of
\* the risk branch and the strategy ends with " | High expense alert";
\* when the ratio is <= 0.8 (0.8 included) both are the base allocation
\* and the strategy carries no alert.
C1_DistressAdjustment ==
    (budget_plan # None /\ Data.income > 0) =>
        IF 10 * Pred > 8 * Data.income
        THEN /\ Plan.savings_target = 8 * TableSavings(RiskOf) * Data.income
             /\ Plan.investment_recommended
                    = 8 * TableInvestment(RiskOf) * Data.income
             /\ EndsWithAlert(Plan.strategy)
        ELSE /\ Plan.savings_target = 10 * TableSavings(RiskOf) * Data.income
             /\ Plan.investment_recommended
                    = 10 * TableInvestment(RiskOf) * Data.income
             /\ ~ HasAlert(Plan.strategy)

\* income 50000, High, prediction 45000: 12500 and 10000 become 10000 and 8000
C1_Witness ==
    /\ budget_plan # None
    /\ Data.income = 50000 /\ RiskOf = "High" /\ Pred = 45000
    /\ Plan.savings_target = 10000 * 1000
    /\ Plan.investment_recommended = 8000 * 1000
    /\ EndsWithAlert(Plan.strategy)

\* C2: for income > 0 and an expense ratio <= 0.8, (savings_target,
\* investment_recommended) is (15%, 10%) of income for Low, (20%, 15%) for
\* Medium and (25%, 20%) for High, whatever the prediction.
C2_BaseAllocation ==
    (budget_plan # None /\ Data.income > 0 /\ 10 * Pred <= 8 * Data.income) =>
        /\ RiskOf = "Low" =>
              /\ Plan.savings_target = 15 * 10 * Data.income
              /\ Plan.investment_recommended = 10 * 10 * Data.income
        /\ RiskOf = "Medium" =>
              /\ Plan.savings_target = 20 * 10 * Data.income
              /\ Plan.investment_recommended = 15 * 10 * Data.income
        /\ RiskOf = "High" =>
              /\ Plan.savings_target = 25 * 10 * Data.income
              /\ Plan.investment_recommended = 20 * 10 * Data.income

\* income 75000, Medium, prediction 45000: 15000 and 11250
C2_Witness ==
    /\ budget_plan # None
    /\ Data.income = 75000 /\ RiskOf = "Medium" /\ Pred = 45000
    /\ Plan.savings_target = 15000 * 1000
    /\ Plan.investment_recommended = 11250 * 1000
    /\ ~ HasAlert(Plan.strategy)

OccupationUnknown ==
    \/ loaded.occupation_encoder = None
    \/ Data.occupation \notin loaded.occupation_encoder[1]

CityTierUnknown ==
    \/ loaded.city_encoder = None
    \/ Data.city_tier \notin loaded.city_encoder[1]

\* C3: when the occupation and/or the city tier is unknown to its codec,
\* predict_expenses does not fail for it: model.predict is still invoked,
\* with Occupation_Encoded = 0 where the occupation is unknown and
\* City_Tier_Encoded = 1 where the city tier is unknown.
C3_UnknownCategoryNeverRaises ==
    ("predict_expenses" \in calls /\ (OccupationUnknown \/ CityTierUnknown)) =>
        /\ "model.predict" \in calls
        /\ features # None
        /\ predict_outcome # None
        /\ pc = "exception" => predict_outcome[1].raised
        /\ OccupationUnknown => features[1].Occupation_Encoded = 0
        /\ CityTierUnknown => features[1].City_Tier_Encoded = 1

C3_Witness ==
    /\ pc = "recommend"
    /\ OccupationUnknown /\ CityTierUnknown
    /\ features # None
    /\ features[1].Occupation_Encoded = 0
    /\ features[1].City_Tier_Encoded = 1

\* C4: every profile that reaches the division of get_budget_recommendation
\* has income > 0, and no BudgetPlan exists for a profile with income <= 0.
C4_IncomePositiveBeforeRatio ==
    /\ pc = "recommend" => Data.income > 0
    /\ "get_budget_recommendation" \in calls => Data.income > 0
    /\ budget_plan # None => (Data.income > 0 /\ Plan.expense_ratio.den > 0)

C4_Witness ==
    /\ budget_plan # None
    /\ Data.income = 10000
    /\ Plan.expense_ratio = [num |-> 5000, den |-> 10000]

LoadFailed ==
    artifacts.model = None \/ artifacts.occupation = None \/ artifacts.city = None

\* C5: when loading the model or either codec fails, load_models returns no
\* model and, for the rest of that execution of main, predict_expenses and
\* get_budget_recommendation are not called and no prediction or BudgetPlan
\* is produced.
C5_ModelUnavailableServesNothing ==
    (LoadFailed /\ pc # "start") =>
        /\ loaded = NoModels
        /\ pc = "unavailable"
        /\ calls = {"load_models"}
        /\ user_data = None
        /\ predicted_expenses = None
        /\ budget_plan = None

C5_Witness ==
    /\ pc = "unavailable"
    /\ artifacts.model # None
    /\ artifacts.occupation # None
    /\ artifacts.city = None

Categories(plan) ==
    [i \in 1..Len(plan.savings_opportunities) |->
        plan.savings_opportunities[i].category]

Amount(plan, i) == plan.savings_opportunities[i].amount

\* C6 as stated: the four keys Groceries, Entertainment, Eating Out,
\* Transport in that order, with amounts of 3%, 2%, 4% and 2% of income.
C6_AmountsAreExactShares ==
    budget_plan # None =>
        /\ Categories(Plan) = <<"Groceries", "Entertainment", "Eating Out", "Transport">>
        /\ 100 * Amount(Plan, 1) = 3 * Data.income
        /\ 100 * Amount(Plan, 2) = 2 * Data.income
        /\ 100 * Amount(Plan, 3) = 4 * Data.income
        /\ 100 * Amount(Plan, 4) = 2 * Data.income

\* amount is share percent of income rounded to a whole number, a tie to the
\* even neighbour
RoundedShare(amount, share, income) ==
    LET diff == 100 * amount - share * income
    IN  /\ diff <= 50
        /\ diff >= 0 - 50
        /\ (diff = 50 \/ diff = 0 - 50) => amount % 2 = 0

\* C6 as amended: the four keys Groceries, Entertainment, Eating Out,
\* Transport in that order, with amounts of 3%, 2%, 4% and 2% of income
\* rounded to the nearest whole rupee (a tie to the even rupee), whatever
\* the risk, the prediction and the distress adjustment.
C6_AmountsAreRoundedShares ==
    budget_plan # None =>
        /\ Categories(Plan) = <<"Groceries", "Entertainment", "Eating Out", "Transport">>
        /\ RoundedShare(Amount(Plan, 1), 3, Data.income)
        /\ RoundedShare(Amount(Plan, 2), 2, Data.income)
        /\ RoundedShare(Amount(Plan, 3), 4, Data.income)
        /\ RoundedShare(Amount(Plan, 4), 2, Data.income)

\* income 10017: 300.51, 200.34, 400.68 and 200.34 are shown as 301, 200,
\* 401 and 200, under a distress adjustment
C6_Witness ==
    /\ budget_plan # None
    /\ Data.income = 10017
    /\ HasAlert(Plan.strategy)
    /\ Amount(Plan, 1) = 301
    /\ Amount(Plan, 2) = 200
    /\ Amount(Plan, 3) = 401
    /\ Amount(Plan, 4) = 200

\* C7: a risk value outside Low, Medium, High takes the default branch: the
\* savings target and the investment are those of Medium for the same income
\* and prediction (20% and 15% of income before the adjustment) and the
\* strategy starts with the Standard label, not with the Medium one.
C7_DefaultBranchLikeMedium ==
    (budget_plan # None /\ RiskOf \notin {"Low", "Medium", "High"}) =>
        LET medium == get_budget_recommendation(
                          [Data EXCEPT !.risk = "Medium"], Pred)
        IN  /\ Plan.savings_target = medium.savings_target
            /\ Plan.investment_recommended = medium.investment_recommended
            /\ (Data.income > 0 /\ 10 * Pred <= 8 * Data.income) =>
                  /\ Plan.savings_target = 20 * 10 * Data.income
                  /\ Plan.investment_recommended = 15 * 10 * Data.income
            /\ Plan.strategy[1]
                   = "Standard - Balanced approach (go with secure investments)"
            /\ Plan.strategy[1] # medium.strategy[1]

\* income 20000, risk "Unknown-value": 4000 and 3000
C7_Witness ==
    /\ budget_plan # None
    /\ Data.income = 20000 /\ RiskOf = "Unknown-value"
    /\ Plan.savings_target = 4000 * 1000
    /\ Plan.investment_recommended = 3000 * 1000

\* C8: the status shown is a total three-way partition of the expense
\* ratio: below 0.5 Excellent (healthy), from 0.5 to below 0.7 Moderate,
\* from 0.7 High; 0.5 is Moderate and 0.7 is High.
C8_StatusPartition ==
    (status # None /\ Data.income > 0) =>
        /\ status[1] \in {"Excellent", "Moderate", "High"}
        /\ status[1] = "Excellent" <=> 10 * Pred < 5 * Data.income
        /\ status[1] = "Moderate" <=>
               (10 * Pred >= 5 * Data.income /\ 10 * Pred < 7 * Data.income)
        /\ status[1] = "High" <=> 10 * Pred >= 7 * Data.income

C8_Witness ==
    /\ status = Some("Moderate")
    /\ 10 * Pred = 5 * Data.income

\* C9: a BudgetPlan is built only after model.predict has returned: when
\* predict raises, get_budget_recommendation is not called in that run and
\* no BudgetPlan, complete or partial, exists.
C9_NoPlanAfterFailedPredict ==
    /\ (predict_outcome # None /\ predict_outcome[1].raised) =>
          /\ pc = "exception"
          /\ "get_budget_recommendation" \notin calls
          /\ predicted_expenses = None
          /\ budget_plan = None
    /\ budget_plan # None =>
          /\ "model.predict" \in calls
          /\ predict_outcome # None
          /\ ~ predict_outcome[1].raised
          /\ Plan.predicted_expenses = predict_outcome[1].value

C9_Witness ==
    /\ pc = "exception"
    /\ predict_outcome # None
    /\ predict_outcome[1].raised
    /\ "model.predict" \in calls
    /\ budget_plan = None

\* C10: the default code is applied per category: with a known occupation
\* and an unknown city tier, Occupation_Encoded is the occupation codec's
\* code and City_Tier_Encoded is 1; with an unknown occupation and a known
\* city tier, City_Tier_Encoded is the city codec's code and
\* Occupation_Encoded is 0.
C10_FallbackPerCategory ==
    ("predict_expenses" \in calls /\ features # None) =>
        /\ (~ OccupationUnknown /\ CityTierUnknown) =>
              /\ features[1].Occupation_Encoded
                     = transform(loaded.occupation_encoder, Data.occupation).code
              /\ features[1].City_Tier_Encoded = 1
        /\ (OccupationUnknown /\ ~ CityTierUnknown) =>
              /\ features[1].City_Tier_Encoded
                     = transform(loaded.city_encoder, Data.city_tier).code
              /\ features[1].Occupation_Encoded = 0

====
